---- MODULE Spec2Model ----
(***************************************************************************)
(* Model of crates/local_backend/src/config.rs: the LocalConfig struct     *)
(* that clap fills from the command line, and the derivations of           *)
(* `impl LocalConfig` (bind addresses, origin URLs, instance name, secret, *)
(* key broker, storage directory).                                         *)
(*                                                                         *)
(* Strings are TLA+ strings.  Option<T> is a sequence of length 0 (None)   *)
(* or 1 (Some).  A call outcome is Returned(v) or Panicked; the value of a *)
(* function returning anyhow::Result is Ok(x) or Err(e).                   *)
(***************************************************************************)
EXTENDS Integers, Sequences, FiniteSets, TLC

VARIABLES argv, stage, config, first, last, caller, repeat

vars == <<argv, stage, config, first, last, caller, repeat>>

(***************************************************************************)
(* Bounds and sample inputs                                                *)
(***************************************************************************)
NumCallers == 2

Callers == 1..NumCallers

U16_MAX == 65535

DEFAULT_PORT == 3210

DEFAULT_SITE_PROXY_PORT == 3211

DEFAULT_INTERFACE == <<0, 0, 0, 0>>

DEFAULT_DB_SPEC == "convex_local_backend.sqlite3"

DEFAULT_LOCAL_STORAGE == "convex_local_storage"

\* keybroker's development constants; their values live in the keybroker crate.
DEV_INSTANCE_NAME == "DEV_INSTANCE_NAME"

DEV_SECRET == "DEV_SECRET"

(***************************************************************************)
(* Rust value constructors                                                 *)
(***************************************************************************)
None == <<>>

Some(x) == <<x>>

Ok(x) == [ok |-> TRUE, v |-> x]

Err(e) == [ok |-> FALSE, v |-> e]

Returned(v) == [st |-> "returned", val |-> v]

Panicked == [st |-> "panicked"]

Uncalled == [st |-> "uncalled"]

\* Option::unwrap_or
unwrap_or(opt, default) == IF opt = None THEN default ELSE opt[1]

(***************************************************************************)
(* Command lines: one optional value per clap argument                     *)
(***************************************************************************)
InterfaceArgs == {None, Some(<<127, 0, 0, 1>>)}

PortArgs == {None, Some(0), Some(U16_MAX)}

SiteProxyPortArgs == {None, Some(0)}

OriginArgs == {None, Some("https://example.com")}

SiteArgs == {None, Some("https://example.site")}

InstanceNameArgs == {None, Some("acme")}

InstanceSecretArgs == {None, Some("well-formed-secret"), Some("not-a-valid-secret")}

LocalStorageArgs == {None, Some("/var/convex")}

ArgvSamples ==
    [ db_spec : {None},
      interface : InterfaceArgs,
      port : PortArgs,
      site_proxy_port : SiteProxyPortArgs,
      convex_origin : OriginArgs,
      convex_site : SiteArgs,
      convex_http_proxy : {None},
      instance_name : InstanceNameArgs,
      instance_secret : InstanceSecretArgs,
      sentry_identifier : {None},
      local_storage : LocalStorageArgs ]

\* Mutant: only instance_name carries `requires`.
RequiresSatisfied_one_way(a) ==
    a.instance_name # None => a.instance_secret # None

\* clap `requires`: an argument that is present needs the other one present.
RequiresSatisfied(a) ==
    /\ (a.instance_name # None => a.instance_secret # None)
    /\ (a.instance_secret # None => a.instance_name # None)

\* The LocalConfig clap builds from a command line: defaults fill the
\* arguments that have a default_value, the others stay Option.
LocalConfig(a) ==
    [ db_spec |-> unwrap_or(a.db_spec, DEFAULT_DB_SPEC),
      interface |-> unwrap_or(a.interface, DEFAULT_INTERFACE),
      port |-> unwrap_or(a.port, DEFAULT_PORT),
      site_proxy_port |-> unwrap_or(a.site_proxy_port, DEFAULT_SITE_PROXY_PORT),
      convex_origin |-> a.convex_origin,
      convex_site |-> a.convex_site,
      convex_http_proxy |-> a.convex_http_proxy,
      instance_name |-> a.instance_name,
      instance_secret |-> a.instance_secret,
      sentry_identifier |-> a.sentry_identifier,
      local_storage |-> unwrap_or(a.local_storage, DEFAULT_LOCAL_STORAGE) ]

(***************************************************************************)
(* Collaborators outside config.rs                                         *)
(***************************************************************************)
\* The secret strings keybroker's parser accepts.
WellFormedSecrets == {DEV_SECRET, "well-formed-secret"}

\* InstanceSecret::try_from(&str)
InstanceSecret_try_from(s) ==
    IF s \in WellFormedSecrets
    THEN Ok([InstanceSecret |-> s])
    ELSE Err([error |-> "InvalidSecret", cause |-> s])

\* KeyBroker::new(&name, secret)
KeyBroker_new(instance_name, instance_secret) ==
    Ok([instance_name |-> instance_name, instance_secret |-> instance_secret])

(***************************************************************************)
(* impl LocalConfig                                                        *)
(***************************************************************************)
\* Ipv4Addr::octets
octets(ip) == <<ip[1], ip[2], ip[3], ip[4]>>

DigitChar(d) ==
    CASE d = 0 -> "0" [] d = 1 -> "1" [] d = 2 -> "2" [] d = 3 -> "3"
      [] d = 4 -> "4" [] d = 5 -> "5" [] d = 6 -> "6" [] d = 7 -> "7"
      [] d = 8 -> "8" [] d = 9 -> "9"

\* Display of a u16 inside format!: decimal digits, most significant first.
RECURSIVE fmt_u16(_)
fmt_u16(n) ==
    IF n < 10 THEN DigitChar(n) ELSE fmt_u16(n \div 10) \o DigitChar(n % 10)

\* format!("http://127.0.0.1:{}", port)
format_local_url(port) == "http://127.0.0.1:" \o fmt_u16(port)

\* Mutant: the site proxy port in place of the port.
http_bind_address_site_port(self) ==
    Returned(<<octets(self.interface), self.site_proxy_port>>)

http_bind_address(self) == Returned(<<octets(self.interface), self.port>>)

\* Mutant: port 0 read as "site proxy disabled".
site_bind_address_disabled(self) ==
    IF self.site_proxy_port = 0
    THEN Returned(None)
    ELSE Returned(Some(<<octets(self.interface), self.site_proxy_port>>))

site_bind_address(self) ==
    Returned(Some(<<octets(self.interface), self.site_proxy_port>>))

\* Mutant: the fallback built from the site proxy port.
convex_origin_url_site_port(self) ==
    Returned(unwrap_or(self.convex_origin, format_local_url(self.site_proxy_port)))

convex_origin_url(self) ==
    Returned(unwrap_or(self.convex_origin, format_local_url(self.port)))

\* Mutant: the fallback built from the port.
convex_site_url_port(self) ==
    Returned(unwrap_or(self.convex_site, format_local_url(self.port)))

convex_site_url(self) ==
    Returned(unwrap_or(self.convex_site, format_local_url(self.site_proxy_port)))

\* Mutant: the wrong development constant as the fallback.
name_wrong_default(self) == Returned(unwrap_or(self.instance_name, DEV_SECRET))

name(self) == Returned(unwrap_or(self.instance_name, DEV_INSTANCE_NAME))

\* The string secret() hands to the parser.
effectiveSecretSource(self) == unwrap_or(self.instance_secret, DEV_SECRET)

secret(self) == Returned(InstanceSecret_try_from(effectiveSecretSource(self)))

\* Mutant: a secret that does not parse is replaced by the development secret.
key_broker_dev_fallback(self) ==
    LET n == unwrap_or(self.instance_name, DEV_INSTANCE_NAME)
        s == InstanceSecret_try_from(unwrap_or(self.instance_secret, DEV_SECRET))
    IN  IF s.ok
        THEN Returned(KeyBroker_new(n, s.v))
        ELSE Returned(KeyBroker_new(n, InstanceSecret_try_from(DEV_SECRET).v))

\* Mutant: the broker is always bound to the development instance name.
key_broker_dev_name(self) ==
    LET s == InstanceSecret_try_from(unwrap_or(self.instance_secret, DEV_SECRET))
    IN  IF s.ok
        THEN Returned(KeyBroker_new(DEV_INSTANCE_NAME, s.v))
        ELSE Returned(Err(s.v))

\* Mutant: a name without a secret (or a secret without a name) is refused.
key_broker_checks_pairing(self) ==
    LET n == unwrap_or(self.instance_name, DEV_INSTANCE_NAME)
        s == InstanceSecret_try_from(unwrap_or(self.instance_secret, DEV_SECRET))
    IN  IF (self.instance_name = None) # (self.instance_secret = None)
        THEN Returned(Err([error |-> "MissingPairedField", cause |-> n]))
        ELSE IF s.ok THEN Returned(KeyBroker_new(n, s.v)) ELSE Returned(Err(s.v))

\* `self.secret()?` returns the error of secret() to the caller.
key_broker(self) ==
    LET n == name(self).val
        s == secret(self).val
    IN  IF s.ok THEN Returned(KeyBroker_new(n, s.v)) ELSE Returned(Err(s.v))

storage_dir(self) == Returned(self.local_storage)

(***************************************************************************)
(* State machine                                                           *)
(***************************************************************************)
Ops == {"http_bind_address", "site_bind_address", "convex_origin_url",
        "convex_site_url", "name", "secret", "key_broker", "storage_dir"}

NoCalls == [op \in Ops |-> Uncalled]

Init ==
    /\ argv \in ArgvSamples
    /\ stage = "args"
    /\ config = None
    /\ first = NoCalls
    /\ last = NoCalls
    /\ caller = 0
    /\ repeat = FALSE

\* LocalConfig::try_parse_from: clap rejects a command line that breaks a
\* `requires`, otherwise it builds the LocalConfig.
try_parse_from ==
    /\ stage = "args"
    /\ IF RequiresSatisfied(argv)
       THEN /\ stage' = "parsed"
            /\ config' = Some(LocalConfig(argv))
       ELSE /\ stage' = "rejected"
            /\ config' = None
    /\ UNCHANGED <<argv, first, last, caller, repeat>>

\* Caller k gets outcome r from operation op; repeat tells whether op had
\* been called before.
Record(k, op, r) ==
    /\ first' = IF first[op] = Uncalled THEN [first EXCEPT ![op] = r] ELSE first
    /\ last' = [last EXCEPT ![op] = r]
    /\ caller' = k
    /\ repeat' = (first[op] # Uncalled)
    /\ UNCHANGED <<argv, stage>>

\* Every method takes &self: a call reads the LocalConfig and leaves it as is.
Call_http_bind_address(k) ==
    /\ config # None
    /\ Record(k, "http_bind_address", http_bind_address(config[1]))
    /\ UNCHANGED config

Call_site_bind_address(k) ==
    /\ config # None
    /\ Record(k, "site_bind_address", site_bind_address(config[1]))
    /\ UNCHANGED config

Call_convex_origin_url(k) ==
    /\ config # None
    /\ Record(k, "convex_origin_url", convex_origin_url(config[1]))
    /\ UNCHANGED config

Call_convex_site_url(k) ==
    /\ config # None
    /\ Record(k, "convex_site_url", convex_site_url(config[1]))
    /\ UNCHANGED config

\* Mutant: name() takes the instance name out of the config (Option::take
\* where the code clones).
Call_name_take(k) ==
    /\ config # None
    /\ Record(k, "name", Returned(unwrap_or(config[1].instance_name, DEV_INSTANCE_NAME)))
    /\ config' = Some([config[1] EXCEPT !.instance_name = None])

Call_name(k) ==
    /\ config # None
    /\ Record(k, "name", name(config[1]))
    /\ UNCHANGED config

Call_secret(k) ==
    /\ config # None
    /\ Record(k, "secret", secret(config[1]))
    /\ UNCHANGED config

Call_key_broker(k) ==
    /\ config # None
    /\ Record(k, "key_broker", key_broker(config[1]))
    /\ UNCHANGED config

Call_storage_dir(k) ==
    /\ config # None
    /\ Record(k, "storage_dir", storage_dir(config[1]))
    /\ UNCHANGED config

Calls ==
    \E k \in Callers :
        \/ Call_http_bind_address(k)
        \/ Call_site_bind_address(k)
        \/ Call_convex_origin_url(k)
        \/ Call_convex_site_url(k)
        \/ Call_name(k)
        \/ Call_secret(k)
        \/ Call_key_broker(k)
        \/ Call_storage_dir(k)

Next == try_parse_from \/ Calls

Spec == Init /\ [][Next]_vars

\* The derivations applied to every LocalConfig value of the struct's type,
\* the ones clap would reject included (instance_name and instance_secret
\* are two independent pub Option fields of a Clone struct).
InitPure ==
    /\ argv \in ArgvSamples
    /\ stage = "parsed"
    /\ config = Some(LocalConfig(argv))
    /\ first = NoCalls
    /\ last = NoCalls
    /\ caller = 0
    /\ repeat = FALSE

NextPure == Calls

SpecPure == InitPure /\ [][NextPure]_vars

TypeOK ==
    /\ stage \in {"args", "parsed", "rejected"}
    /\ caller \in 0..NumCallers
    /\ repeat \in BOOLEAN

(***************************************************************************)
(* Properties                                                              *)
(***************************************************************************)
\* The LocalConfig the calls read.
Cfg == config[1]

Called(op) == last[op] # Uncalled

InfallibleOps == Ops \ {"secret", "key_broker"}

\* C1: whenever convex_origin_url has been called it returned (no panic):
\* the supplied origin verbatim when convex_origin is present, whatever the
\* port, and exactly "http://127.0.0.1:" followed by the decimal port when
\* it is absent; the latest call returned the same value as the first one.
C1_OriginUrl ==
    Called("convex_origin_url") =>
        LET r == last["convex_origin_url"]
        IN  /\ r.st = "returned"
            /\ Cfg.convex_origin # None => r.val = Cfg.convex_origin[1]
            /\ Cfg.convex_origin = None =>
                   r.val = "http://127.0.0.1:" \o ToString(Cfg.port)
            /\ first["convex_origin_url"] = r

\* C1 witness: origin given on a non-default port, resolved a second time.
C1_Witness ==
    /\ stage = "parsed"
    /\ Cfg.convex_origin = Some("https://example.com")
    /\ Cfg.port = 65535
    /\ Cfg.site_proxy_port = 0
    /\ last["convex_origin_url"] = Returned("https://example.com")
    /\ repeat

\* C2: whenever convex_site_url has been called it returned the supplied
\* site verbatim when convex_site is present and exactly
\* "http://127.0.0.1:" followed by the decimal site proxy port when it is
\* absent: a value fixed by site_proxy_port and convex_site alone.
C2_SiteUrl ==
    Called("convex_site_url") =>
        LET r == last["convex_site_url"]
        IN  /\ r.st = "returned"
            /\ Cfg.convex_site # None => r.val = Cfg.convex_site[1]
            /\ Cfg.convex_site = None =>
                   r.val = "http://127.0.0.1:" \o ToString(Cfg.site_proxy_port)

\* C2 witness: no site given, an origin given, port and site proxy port
\* differ, and the fallback carries the site proxy port.
C2_Witness ==
    /\ stage = "parsed"
    /\ Cfg.convex_site = None
    /\ Cfg.convex_origin # None
    /\ Cfg.port = 65535
    /\ Cfg.site_proxy_port = 3211
    /\ last["convex_site_url"] = Returned("http://127.0.0.1:3211")

\* C3: with or without an instance name, when the effective secret string
\* does not parse, key_broker returns Err with the InvalidSecret error, no
\* KeyBroker, and the error is the very one secret() returns.
C3_InvalidSecretFails ==
    (Called("key_broker") /\ effectiveSecretSource(Cfg) \notin WellFormedSecrets) =>
        LET r == last["key_broker"]
        IN  /\ r.st = "returned"
            /\ ~r.val.ok
            /\ r.val.v.error = "InvalidSecret"
            /\ Called("secret") => r.val = last["secret"].val

\* C3 witness: "acme" with "not-a-valid-secret": both secret and key_broker
\* returned the InvalidSecret error.
C3_Witness ==
    /\ Cfg.instance_name = Some("acme")
    /\ Cfg.instance_secret = Some("not-a-valid-secret")
    /\ Called("secret")
    /\ Called("key_broker")
    /\ ~last["key_broker"].val.ok
    /\ last["key_broker"].val.v.error = "InvalidSecret"

\* C4: with instance_name and instance_secret both absent, key_broker
\* returns Ok with a KeyBroker built from DEV_INSTANCE_NAME and the parsed
\* DEV_SECRET.
C4_DevIdentity ==
    (Called("key_broker") /\ Cfg.instance_name = None /\ Cfg.instance_secret = None) =>
        last["key_broker"] =
            Returned(Ok([instance_name |-> DEV_INSTANCE_NAME,
                         instance_secret |-> [InstanceSecret |-> DEV_SECRET]]))

\* C4 witness: a config without name and secret whose key_broker returned Ok.
C4_Witness ==
    /\ stage = "parsed"
    /\ argv.instance_name = None
    /\ argv.instance_secret = None
    /\ Called("key_broker")
    /\ last["key_broker"].val.ok

\* C5: whenever http_bind_address has been called it returned exactly
\* (interface octets, port), a port of the u16 range.
C5_HttpBind ==
    Called("http_bind_address") =>
        /\ last["http_bind_address"] = Returned(<<Cfg.interface, Cfg.port>>)
        /\ last["http_bind_address"].val[2] \in 0..U16_MAX

\* C5 witness: the largest port, on a given interface, with a different
\* site proxy port.
C5_Witness ==
    /\ stage = "parsed"
    /\ Cfg.site_proxy_port = 0
    /\ Cfg.convex_origin # None
    /\ last["http_bind_address"] = Returned(<<(<<127, 0, 0, 1>>), 65535>>)

\* C6: whenever site_bind_address has been called it returned a present
\* value, (interface octets, site proxy port), whose interface is the one
\* http_bind_address returns.
C6_SiteBind ==
    Called("site_bind_address") =>
        LET r == last["site_bind_address"]
        IN  /\ r.st = "returned"
            /\ r.val # None
            /\ r.val[1] = <<Cfg.interface, Cfg.site_proxy_port>>
            /\ Called("http_bind_address") =>
                   r.val[1][1] = last["http_bind_address"].val[1]

\* C6 witness: site proxy port 0 still yields a present address, next to
\* the address of the main port.
C6_Witness ==
    /\ stage = "parsed"
    /\ Called("http_bind_address")
    /\ last["site_bind_address"] = Returned(Some(<<(<<0, 0, 0, 0>>), 0>>))

\* C7: a command line with exactly one of instance_name and instance_secret
\* is rejected by the parser, yields no LocalConfig and no call; every
\* LocalConfig there is has the two both present or both absent.
C7_CoPresence ==
    /\ config # None => ((Cfg.instance_name = None) <=> (Cfg.instance_secret = None))
    /\ ((argv.instance_name = None) # (argv.instance_secret = None)) =>
           /\ stage \in {"args", "rejected"}
           /\ config = None
           /\ \A op \in Ops : ~Called(op)

\* C7 witness: the parser has rejected a secret given without a name.
C7_Witness ==
    /\ stage = "rejected"
    /\ argv.instance_name = None
    /\ argv.instance_secret # None

\* C8: the six plain derivations always return; key_broker returns Ok
\* exactly when secret() does, then with a KeyBroker of the name name()
\* returns and the secret secret() returns, and its only error is
\* InvalidSecret.
C8_OnlyKeyBrokerFails ==
    /\ \A op \in InfallibleOps : Called(op) => last[op].st = "returned"
    /\ Called("key_broker") =>
        LET r == last["key_broker"]
            sec == InstanceSecret_try_from(effectiveSecretSource(Cfg))
        IN  /\ r.st = "returned"
            /\ r.val.ok = sec.ok
            /\ ~r.val.ok => r.val.v.error = "InvalidSecret"
            /\ r.val.ok => r.val.v.instance_secret = sec.v
            /\ (r.val.ok /\ Called("secret")) =>
                   r.val.v.instance_secret = last["secret"].val.v
            /\ (r.val.ok /\ Called("name")) =>
                   r.val.v.instance_name = last["name"].val

\* C8 witness: an explicit name with a well-formed secret: name, secret and
\* key_broker were called and the broker holds that name and secret.
C8_Witness ==
    /\ stage = "parsed"
    /\ Called("name")
    /\ Called("secret")
    /\ last["key_broker"] =
           Returned(Ok([instance_name |-> "acme",
                        instance_secret |-> [InstanceSecret |-> "well-formed-secret"]]))

\* C9: name() is instance_name or else DEV_INSTANCE_NAME, the secret
\* source is instance_secret or else DEV_SECRET, each whatever the other
\* field holds; with a name and no secret key_broker returns Ok with a
\* KeyBroker of the explicit name and the development secret.
C9_IndependentFallbacks ==
    /\ Called("name") =>
           last["name"] = Returned(IF Cfg.instance_name = None
                                   THEN DEV_INSTANCE_NAME
                                   ELSE Cfg.instance_name[1])
    /\ Called("secret") =>
           last["secret"] = Returned(InstanceSecret_try_from(
                                IF Cfg.instance_secret = None
                                THEN DEV_SECRET
                                ELSE Cfg.instance_secret[1]))
    /\ (Called("key_broker") /\ Cfg.instance_name # None /\ Cfg.instance_secret = None) =>
           last["key_broker"] =
               Returned(Ok([instance_name |-> Cfg.instance_name[1],
                            instance_secret |-> [InstanceSecret |-> DEV_SECRET]]))

\* C9 witness: "acme" without a secret: the broker is bound to "acme" and
\* the development secret.
C9_Witness ==
    /\ Cfg.instance_name = Some("acme")
    /\ Cfg.instance_secret = None
    /\ Called("name")
    /\ Called("secret")
    /\ last["key_broker"] =
           Returned(Ok([instance_name |-> "acme",
                        instance_secret |-> [InstanceSecret |-> DEV_SECRET]]))

\* C10: after any calls by any callers the LocalConfig is the one the
\* parser built, and the latest outcome of every operation is the outcome
\* of its first call.
C10_PureDerivations ==
    /\ stage = "parsed" => config = Some(LocalConfig(argv))
    /\ \A op \in Ops : last[op] = first[op]

\* C10 witness: all eight operations called, the latest call a repeated one
\* by the second caller, key_broker having failed.
C10_Witness ==
    /\ stage = "parsed"
    /\ \A op \in Ops : Called(op)
    /\ repeat
    /\ caller = 2
    /\ ~last["key_broker"].val.ok
    /\ Cfg.instance_name # None
====
